---- MODULE Spec2Model ----
(***************************************************************************)
(* XDG decoration manager of smithay (src/wayland/shell/xdg/decoration.rs). *)
(*                                                                         *)
(* The state is what the handlers installed by init_xdg_decoration_manager *)
(* read and write: the `decoration` slot of every toplevel's               *)
(* ShellSurfaceUserData, the decoration resources created so far, the      *)
(* protocol errors posted, the invocations of the compositor's callback    *)
(* and the configure events sent.  The transport (wayland_server) is the   *)
(* environment: it delivers requests to live resources one at a time and   *)
(* runs the destructor of a resource once.                                 *)
(***************************************************************************)
EXTENDS Integers, Sequences, FiniteSets

\* ---- bounds ----
MaxDecorations == 3     \* decoration resources created in one run
MaxRequests == 4        \* protocol requests / destructor runs dispatched in one run
MaxConfigures == 1      \* calls of send_decoration_configure in one run
MaxDestructorRuns == 2  \* runs of one destructor under SpecDup (duplicate teardown)

\* ---- the toplevels of the run ----
\* W1 and W2 carry a ShellSurfaceUserData record, X does not.
Toplevels == {"W1", "W2", "X"}

WithUserData == {"W1", "W2"}

\* a handler that takes the record for granted
HasDataAlways(w) == TRUE

\* toplevel.as_ref().user_data().get::<ShellSurfaceUserData>() is Some
HasData(w) == w \in WithUserData

\* zxdg_toplevel_decoration_v1::Mode
Mode == {"ClientSide", "ServerSide"}

\* Option::None of the decoration slot (resources are numbered from 1)
None == 0

NoMode == "-"

NoToplevel == "-"

VARIABLES
    decoration,     \* toplevel -> the resource in data.decoration, or None
    objs,           \* the decoration resources in creation order:
                    \*   toplevel: the toplevel of the creating request (captured by the closures)
                    \*   assigned: id.quick_assign was called on it
                    \*   runs:     how often its destructor filter ran
    posted_errors,  \* resources on which post_error(AlreadyConstructed) was called
    events,         \* invocations of the callback, in order; obj and req tell
                    \* which resource's handler made the call while handling which request
    configures,     \* calls of send_decoration_configure, in order: the
                    \* arguments (id, mode) and the configure events sent
    requests,       \* requests and destructor runs dispatched so far, in order
    decoration_mode \* toplevel -> decoration_mode of its pending state, or NoMode

vars == <<decoration, objs, posted_errors, events, configures, requests, decoration_mode>>

Ids == 1..Len(objs)

Alive(d) == d \in Ids /\ objs[d].runs = 0

\* ---- the pieces of the handlers ----

\* a bind that overwrites an occupied slot
BindSlotOverwrite(cur, id) == id

\* lines 91-92: the slot after the bind check
BindSlot(cur, id) == IF cur = None THEN id ELSE cur

\* lines 93-96: the else branch posts the error on the new resource
AlreadyConstructed(cur) == cur # None

\* a handler that calls the callback twice for one request
NewToplevelDecorationTwice(w, id, r) ==
    LET e == [kind |-> "NewToplevelDecoration", toplevel |-> w, mode |-> NoMode, obj |-> id, req |-> r]
    IN  <<e, e>>

\* lines 103-108: the callback is called with NewToplevelDecoration after the
\* bind check, on both of its branches
NewToplevelDecoration(w, id, r) ==
    <<[kind |-> "NewToplevelDecoration", toplevel |-> w, mode |-> NoMode, obj |-> id, req |-> r]>>

\* a relay that names the toplevel of the resource created last instead of
\* the one its closure captured
SetModeRelayLastToplevel(d, m, r) ==
    <<[kind |-> "SetMode", toplevel |-> objs[Len(objs)].toplevel, mode |-> m, obj |-> d, req |-> r]>>

\* lines 112-120
SetModeRelay(d, m, r) ==
    <<[kind |-> "SetMode", toplevel |-> objs[d].toplevel, mode |-> m, obj |-> d, req |-> r]>>

\* an unset_mode arm that relays nothing
UnsetModeSilent(d, r) == <<>>

\* lines 121-128
UnsetModeRelay(d, r) ==
    <<[kind |-> "UnsetMode", toplevel |-> objs[d].toplevel, mode |-> NoMode, obj |-> d, req |-> r]>>

\* a destructor that leaves the slot as it is
DestructorKeep(cur) == cur

\* line 138: the destructor writes None whatever the slot holds
DestructorSlot(cur) == None

\* a configure that always announces ServerSide
ConfigureServerSide(id, mode) == <<[obj |-> id, mode |-> "ServerSide"]>>

\* line 152: id.configure(mode), the configure events sent by one call
Configure(id, mode) == <<[obj |-> id, mode |-> mode]>>

\* the callback of the module's example (lines 18-31): it advertises server
\* side decoration in the pending state of the toplevel of a
\* NewToplevelDecoration and does nothing on SetMode and UnsetMode.  Its
\* toplevel.send_configure() belongs to the toplevel abstraction; what that
\* sends on the decoration resource is a SendDecorationConfigure step
Implementation(e, pending) ==
    IF e.kind = "NewToplevelDecoration"
    THEN [pending EXCEPT ![e.toplevel] = "ServerSide"]
    ELSE pending

\* (&mut *cb.borrow_mut())(..) for the events one handler delivers, in order
RECURSIVE Callback(_, _)
Callback(es, pending) ==
    IF es = <<>> THEN pending ELSE Callback(Tail(es), Implementation(Head(es), pending))

Request(k, d, w, m) == [kind |-> k, obj |-> d, toplevel |-> w, mode |-> m]

\* ---- initial state: no decoration resource exists ----
Init ==
    /\ decoration = [w \in Toplevels |-> None]
    /\ objs = <<>>
    /\ posted_errors = {}
    /\ events = <<>>
    /\ configures = <<>>
    /\ requests = <<>>
    /\ decoration_mode = [w \in Toplevels |-> NoMode]

\* a manager destroy that tears down the decorations created through it
ManagerDestroyTearsDown ==
    /\ Len(requests) < MaxRequests
    /\ requests' = Append(requests, Request("ManagerDestroy", None, NoToplevel, NoMode))
    /\ decoration' = [w \in Toplevels |-> None]
    /\ objs' = [d \in Ids |-> [objs[d] EXCEPT !.assigned = FALSE]]
    /\ UNCHANGED <<posted_errors, events, configures, decoration_mode>>

\* ---- zxdg_decoration_manager_v1::Request::Destroy (lines 86-88) ----
ManagerDestroy ==
    /\ Len(requests) < MaxRequests
    /\ requests' = Append(requests, Request("ManagerDestroy", None, NoToplevel, NoMode))
    /\ UNCHANGED <<decoration, objs, posted_errors, events, configures, decoration_mode>>

\* ---- zxdg_decoration_manager_v1::Request::GetToplevelDecoration (lines 89-142) ----
GetToplevelDecoration(w) ==
    LET id == Len(objs) + 1
        r == Len(requests) + 1
    IN  /\ id <= MaxDecorations
        /\ r <= MaxRequests
        /\ requests' = Append(requests, Request("GetToplevelDecoration", id, w, NoMode))
        /\ objs' = Append(objs, [toplevel |-> w, assigned |-> HasData(w), runs |-> 0])
        /\ IF HasData(w)
           THEN /\ decoration' = [decoration EXCEPT ![w] = BindSlot(@, id)]
                /\ posted_errors' = IF AlreadyConstructed(decoration[w])
                                    THEN posted_errors \cup {id}
                                    ELSE posted_errors
                /\ events' = events \o NewToplevelDecoration(w, id, r)
                /\ decoration_mode' = Callback(NewToplevelDecoration(w, id, r), decoration_mode)
           ELSE UNCHANGED <<decoration, posted_errors, events, decoration_mode>>
        /\ UNCHANGED configures

\* a set_mode handler that stores the requested mode in the pending state
SetModeStoresMode(d, m) ==
    LET r == Len(requests) + 1
    IN  /\ Alive(d)
        /\ r <= MaxRequests
        /\ requests' = Append(requests, Request("SetMode", d, NoToplevel, m))
        /\ events' = IF objs[d].assigned THEN events \o SetModeRelay(d, m, r) ELSE events
        /\ decoration_mode' = [decoration_mode EXCEPT ![objs[d].toplevel] = m]
        /\ UNCHANGED <<decoration, objs, posted_errors, configures>>

\* ---- zxdg_toplevel_decoration_v1::Request::SetMode (lines 111-120) ----
SetMode(d, m) ==
    LET r == Len(requests) + 1
    IN  /\ Alive(d)
        /\ r <= MaxRequests
        /\ requests' = Append(requests, Request("SetMode", d, NoToplevel, m))
        /\ events' = IF objs[d].assigned THEN events \o SetModeRelay(d, m, r) ELSE events
        /\ decoration_mode' = IF objs[d].assigned
                              THEN Callback(SetModeRelay(d, m, r), decoration_mode)
                              ELSE decoration_mode
        /\ UNCHANGED <<decoration, objs, posted_errors, configures>>

\* ---- zxdg_toplevel_decoration_v1::Request::UnsetMode (lines 121-128) ----
UnsetMode(d) ==
    LET r == Len(requests) + 1
    IN  /\ Alive(d)
        /\ r <= MaxRequests
        /\ requests' = Append(requests, Request("UnsetMode", d, NoToplevel, NoMode))
        /\ events' = IF objs[d].assigned THEN events \o UnsetModeRelay(d, r) ELSE events
        /\ decoration_mode' = IF objs[d].assigned
                              THEN Callback(UnsetModeRelay(d, r), decoration_mode)
                              ELSE decoration_mode
        /\ UNCHANGED <<decoration, objs, posted_errors, configures>>

\* a destructor that reports the destruction to the callback
DestructorBodyNotifies(d) ==
    LET w == objs[d].toplevel
        r == Len(requests) + 1
    IN  /\ r <= MaxRequests
        /\ requests' = Append(requests, Request("Destroy", d, NoToplevel, NoMode))
        /\ objs' = [objs EXCEPT ![d].runs = @ + 1]
        /\ decoration' = IF HasData(w) THEN [decoration EXCEPT ![w] = None] ELSE decoration
        /\ events' = IF HasData(w) THEN events \o UnsetModeRelay(d, r) ELSE events
        /\ UNCHANGED <<posted_errors, configures, decoration_mode>>

\* a destructor that clears the slot of every toplevel
DestructorBodyClearsAll(d) ==
    /\ Len(requests) < MaxRequests
    /\ requests' = Append(requests, Request("Destroy", d, NoToplevel, NoMode))
    /\ objs' = [objs EXCEPT ![d].runs = @ + 1]
    /\ decoration' = [w \in Toplevels |-> None]
    /\ UNCHANGED <<posted_errors, events, configures, decoration_mode>>

\* the body of the destructor filter (lines 134-140) run for resource d
DestructorBody(d) ==
    LET w == objs[d].toplevel
    IN  /\ Len(requests) < MaxRequests
        /\ requests' = Append(requests, Request("Destroy", d, NoToplevel, NoMode))
        /\ objs' = [objs EXCEPT ![d].runs = @ + 1]
        /\ decoration' = IF HasData(w)
                         THEN [decoration EXCEPT ![w] = DestructorSlot(@)]
                         ELSE decoration
        /\ UNCHANGED <<posted_errors, events, configures, decoration_mode>>

\* ---- the destructor of a decoration resource (lines 133-141): the resource
\* is released by the client or its connection is torn down ----
Destructor(d) ==
    /\ Alive(d)
    /\ DestructorBody(d)

\* ---- send_decoration_configure (lines 151-153), called by the compositor ----
SendDecorationConfigure(d, m) ==
    /\ Alive(d)
    /\ Len(configures) < MaxConfigures
    /\ configures' = Append(configures, [id |-> d, mode |-> m, sent |-> Configure(d, m)])
    /\ UNCHANGED <<decoration, objs, posted_errors, events, requests, decoration_mode>>

Next ==
    \/ ManagerDestroy
    \/ \E w \in Toplevels : GetToplevelDecoration(w)
    \/ \E d \in Ids, m \in Mode : SetMode(d, m)
    \/ \E d \in Ids : UnsetMode(d)
    \/ \E d \in Ids : Destructor(d)
    \/ \E d \in Ids, m \in Mode : SendDecorationConfigure(d, m)

Spec == Init /\ [][Next]_vars

\* ---- duplicate teardown: the destructor logic of the resource destroyed
\* last is run once more ----
DuplicateDestructor(d) ==
    /\ d \in Ids
    /\ objs[d].runs >= 1
    /\ objs[d].runs < MaxDestructorRuns
    /\ requests[Len(requests)].kind = "Destroy"
    /\ requests[Len(requests)].obj = d
    /\ DestructorBody(d)

NextDup ==
    \/ Next
    \/ \E d \in Ids : DuplicateDestructor(d)

SpecDup == Init /\ [][NextDup]_vars

TypeOK ==
    /\ decoration \in [Toplevels -> 0..MaxDecorations]
    /\ Len(objs) <= MaxDecorations
    /\ posted_errors \subseteq Ids
    /\ Len(requests) <= MaxRequests
    /\ Len(configures) <= MaxConfigures
    /\ decoration_mode \in [Toplevels -> Mode \cup {NoMode}]

\* ---- helpers of the properties ----

Windows == WithUserData

\* a live decoration object: created, no already_constructed posted on it,
\* destructor not yet run
Live(d) == Alive(d) /\ d \notin posted_errors

\* the position in `requests` of the get_toplevel_decoration that created d
CreatedBy(d) ==
    CHOOSE i \in 1..Len(requests) :
        requests[i].kind = "GetToplevelDecoration" /\ requests[i].obj = d

\* the position of the first destructor run of d (d has been destroyed)
DestroyedAt(d) ==
    CHOOSE i \in 1..Len(requests) :
        /\ requests[i].kind = "Destroy" /\ requests[i].obj = d
        /\ \A j \in 1..(i - 1) : ~(requests[j].kind = "Destroy" /\ requests[j].obj = d)

LastRequest == requests[Len(requests)]

\* the step creates a decoration resource
IsGetStep == Len(objs') = Len(objs) + 1

\* what the callback was given, without the bookkeeping fields
Payload(e) == [kind |-> e.kind, toplevel |-> e.toplevel, mode |-> e.mode]

RECURSIVE MapPayload(_)
MapPayload(s) == IF s = <<>> THEN <<>> ELSE <<Payload(Head(s))>> \o MapPayload(Tail(s))

\* the events the handlers of resource d delivered, in order
EventsOf(d) ==
    LET ofD(e) == e.obj = d
    IN  MapPayload(SelectSeq(events, ofD))

\* the event a request on resource d is to be relayed as, W being the target
\* of the request that created d
Relayed(q) ==
    [kind |-> IF q.kind = "GetToplevelDecoration" THEN "NewToplevelDecoration" ELSE q.kind,
     toplevel |-> requests[CreatedBy(q.obj)].toplevel,
     mode |-> q.mode]

RECURSIVE MapRelayed(_)
MapRelayed(s) == IF s = <<>> THEN <<>> ELSE <<Relayed(Head(s))>> \o MapRelayed(Tail(s))

\* the get_toplevel_decoration, set_mode and unset_mode requests on d, in order
RequestsOn(d) ==
    LET onD(q) == q.obj = d /\ q.kind \in {"GetToplevelDecoration", "SetMode", "UnsetMode"}
    IN  SelectSeq(requests, onD)

\* ---- C1 ----
\* C1 (Invariant I1): every window has at most one live decoration object
\* (created for it, no already_constructed posted on it, destructor not run).
C1_AtMostOneLive ==
    \A w \in Windows :
        Cardinality({d \in Ids : Live(d) /\ objs[d].toplevel = w}) <= 1

\* ---- C2 ----
\* C2 (no event on failure): the request that created a resource on which
\* already_constructed was posted caused no invocation of the callback.
C2_NoEventOnFailure ==
    \A d \in posted_errors :
        \A i \in 1..Len(events) : events[i].req # CreatedBy(d)

\* ---- C3 ----
\* C3 (bind contract): a get_toplevel_decoration(id, W) on an empty slot sets
\* the slot to id and posts no error; on an occupied slot it posts the error
\* on id and on nothing else, the slot keeps referring to the first object,
\* and that object is unchanged and still alive.
C3_BindContract ==
    [][IsGetStep =>
        LET id == Len(objs')
            w == objs'[Len(objs')].toplevel
            first == decoration[w]
        IN  HasData(w) =>
                IF first = None
                THEN /\ decoration'[w] = id
                     /\ posted_errors' = posted_errors
                ELSE /\ posted_errors' = posted_errors \cup {id}
                     /\ first # id
                     /\ first \notin posted_errors' \ posted_errors
                     /\ decoration'[w] = first
                     /\ objs'[first] = objs[first]
                     /\ objs'[first].runs = 0
                     /\ first \in posted_errors' <=> first \in posted_errors]_vars

\* a second request for W was just rejected while the first object is bound and alive
C3_Witness ==
    /\ requests # <<>>
    /\ LastRequest.kind = "GetToplevelDecoration"
    /\ LastRequest.obj \in posted_errors
    /\ LET first == decoration[LastRequest.toplevel]
       IN  /\ first # None
           /\ first < LastRequest.obj
           /\ Live(first)

\* ---- C4 ----
\* C4 (destruction of a rejected handle is a no-op): the destructor of a
\* resource on which already_constructed was posted leaves every slot as it was.
C4_RejectedDestructorNoOp ==
    [][\A d \in Ids :
        (d \in posted_errors /\ objs'[d].runs = objs[d].runs + 1)
            => decoration' = decoration]_vars

\* ---- C5 ----
\* C5 (reassociation after destruction): when a non-rejected decoration object
\* of W has been destroyed and no decoration for W was requested since, the
\* next get_toplevel_decoration for W posts no error, binds the slot to the
\* new object and delivers NewToplevelDecoration{W}.
DestroyedAndNotReplaced(w) ==
    \E d \in Ids :
        /\ objs[d].toplevel = w
        /\ d \notin posted_errors
        /\ objs[d].runs >= 1
        /\ \A j \in (DestroyedAt(d) + 1)..Len(requests) :
              ~(requests[j].kind = "GetToplevelDecoration" /\ requests[j].toplevel = w)

C5_Reassociation ==
    [][IsGetStep =>
        LET id == Len(objs')
            w == objs'[Len(objs')].toplevel
        IN  (HasData(w) /\ DestroyedAndNotReplaced(w)) =>
                /\ id \notin posted_errors'
                /\ decoration'[w] = id
                /\ Len(events') = Len(events) + 1
                /\ Payload(events'[Len(events')]) =
                      [kind |-> "NewToplevelDecoration", toplevel |-> w, mode |-> NoMode]]_vars

\* W's decoration was destroyed and the request after it bound a new one
C5_Witness ==
    /\ requests # <<>>
    /\ LastRequest.kind = "GetToplevelDecoration"
    /\ LET id == LastRequest.obj
           w == LastRequest.toplevel
       IN  /\ HasData(w)
           /\ \E d \in 1..(id - 1) :
                 objs[d].toplevel = w /\ d \notin posted_errors /\ objs[d].runs >= 1
                 /\ DestroyedAt(d) = Len(requests) - 1
           /\ id \notin posted_errors
           /\ decoration[w] = id

\* ---- C6 ----
\* C6 (event ordering): for a resource created for a window whose slot was
\* empty, the events its handlers delivered are exactly NewToplevelDecoration{W}
\* followed by one SetMode{W, m} or UnsetMode{W} per set_mode(m) or
\* unset_mode() received on it, in the order of the requests.
C6_EventOrdering ==
    \A d \in Ids :
        (HasData(objs[d].toplevel) /\ d \notin posted_errors)
            => EventsOf(d) = MapRelayed(RequestsOn(d))

\* get, set_mode(ServerSide), unset_mode on one handle
C6_Witness ==
    \E d \in Ids :
        /\ d \notin posted_errors
        /\ EventsOf(d) =
             << [kind |-> "NewToplevelDecoration", toplevel |-> "W1", mode |-> NoMode],
                [kind |-> "SetMode", toplevel |-> "W1", mode |-> "ServerSide"],
                [kind |-> "UnsetMode", toplevel |-> "W1", mode |-> NoMode] >>

\* ---- C7 ----
\* C7 (relay guarantee): every request causes at most one invocation of the
\* callback, made while that request is handled, and the events are delivered
\* in the order of their requests.
RelayOrdered ==
    \A i \in 1..Len(events) :
        /\ events[i].req \in 1..Len(requests)
        /\ requests[events[i].req].obj = events[i].obj
        /\ Payload(events[i]) = Relayed(requests[events[i].req])
        /\ i > 1 => events[i - 1].req < events[i].req

RelayedWhileHandled ==
    /\ Len(events') <= Len(events) + 1
    /\ SubSeq(events', 1, Len(events)) = events
    /\ Len(events') = Len(events) + 1 =>
          /\ Len(requests') = Len(requests) + 1
          /\ events'[Len(events')].req = Len(requests')

C7_RelayGuarantee == []RelayOrdered /\ [][RelayedWhileHandled]_vars

\* three requests relayed in order around a manager destroy that relays nothing
C7_Witness ==
    /\ Len(events) = 3
    /\ Len(requests) = 4
    /\ \E i \in 1..Len(requests) : requests[i].kind = "ManagerDestroy"

\* ---- C8 ----
\* C8 (destructor idempotence): every run of a resource's destructor logic,
\* the first and a repeated one, leaves the slot of its window empty and
\* posts no error.
C8_DestructorIdempotent ==
    [][\A d \in Ids :
        (objs'[d].runs = objs[d].runs + 1 /\ HasData(objs[d].toplevel))
            => /\ decoration'[objs[d].toplevel] = None
               /\ posted_errors' = posted_errors]_vars

\* the destructor of a bound decoration ran twice in a row
C8_Witness ==
    \E d \in Ids :
        /\ objs[d].runs = 2
        /\ HasData(objs[d].toplevel)
        /\ d \notin posted_errors
        /\ decoration[objs[d].toplevel] = None

\* ---- C9 ----
\* C9 (a rejected handle is inert): no SetMode or UnsetMode event is delivered
\* for a request on a resource on which already_constructed was posted.
C9_RejectedHandleInert ==
    \A i \in 1..Len(events) :
        events[i].kind \in {"SetMode", "UnsetMode"} => events[i].obj \notin posted_errors

\* ---- C10 ----
\* C10 (Invariant I2): every SetMode or UnsetMode event relayed for a request
\* on a resource carries the toplevel that was the target of the
\* get_toplevel_decoration request that created the resource.
C10_BoundWindowFixed ==
    \A i \in 1..Len(events) :
        events[i].kind \in {"SetMode", "UnsetMode"} =>
            events[i].toplevel = requests[CreatedBy(events[i].obj)].toplevel

\* a mode request on W1's decoration relayed after a decoration for W2 was created
C10_Witness ==
    \E i \in 1..Len(events) :
        /\ events[i].kind \in {"SetMode", "UnsetMode"}
        /\ events[i].toplevel = "W1"
        /\ \E d \in Ids :
              /\ d > events[i].obj
              /\ objs[d].toplevel = "W2"
              /\ CreatedBy(d) < events[i].req

\* ---- C11 ----
\* the step runs the destructor of resource d
IsDestructorStep(d) == d \in Ids /\ objs'[d].runs = objs[d].runs + 1

\* C11 (destruction is silent cleanup): a run of the destructor of a
\* decoration object invokes the callback zero times and changes nothing but
\* the slot of the toplevel the object was created for, which it clears.
C11_SilentCleanup ==
    [][\A d \in Ids : IsDestructorStep(d) =>
        LET w == requests[CreatedBy(d)].toplevel
        IN  /\ events' = events
            /\ posted_errors' = posted_errors
            /\ configures' = configures
            /\ decoration_mode' = decoration_mode
            /\ \A o \in Ids \ {d} : objs'[o] = objs[o]
            /\ Len(objs') = Len(objs)
            /\ objs'[d].toplevel = objs[d].toplevel
            /\ objs'[d].assigned = objs[d].assigned
            /\ \A v \in Toplevels \ {w} : decoration'[v] = decoration[v]
            /\ HasData(w) => decoration'[w] = None]_vars

\* the destructor of W1's bound decoration ran after events were delivered
\* and while W2 has a decoration
C11_Witness ==
    /\ requests # <<>>
    /\ LastRequest.kind = "Destroy"
    /\ objs[LastRequest.obj].toplevel = "W1"
    /\ LastRequest.obj \notin posted_errors
    /\ decoration["W1"] = None
    /\ decoration["W2"] # None
    /\ events # <<>>

\* ---- C12 ----
\* the step handles a request (or runs a destructor)
IsRequestStep == Len(requests') = Len(requests) + 1

\* the request the step handles
Handled == requests'[Len(requests')]

\* C12 (mode requests are a pass-through): handling set_mode(m) or
\* unset_mode() leaves every slot, every pending decoration mode, every
\* resource, the posted errors and the configures unchanged; its only effect
\* is at most one event, the relayed request.
C12_ModePassThrough ==
    [][(IsRequestStep /\ Handled.kind \in {"SetMode", "UnsetMode"}) =>
        /\ decoration' = decoration
        /\ decoration_mode' = decoration_mode
        /\ objs' = objs
        /\ posted_errors' = posted_errors
        /\ configures' = configures
        /\ \/ events' = events
           \/ /\ Len(events') = Len(events) + 1
              /\ SubSeq(events', 1, Len(events)) = events
              /\ events'[Len(events')].kind = Handled.kind
              /\ events'[Len(events')].mode = Handled.mode]_vars

\* set_mode(ClientSide) was relayed for W1 while its pending mode (set by the
\* callback on NewToplevelDecoration) stays ServerSide
C12_Witness ==
    /\ requests # <<>>
    /\ LastRequest.kind = "SetMode"
    /\ LastRequest.mode = "ClientSide"
    /\ events # <<>>
    /\ events[Len(events)].req = Len(requests)
    /\ events[Len(events)].toplevel = "W1"
    /\ decoration_mode["W1"] = "ServerSide"
    /\ decoration["W1"] = LastRequest.obj

\* ---- C13 ----
\* C13 (configure is never emitted autonomously): no request handler and no
\* destructor sends a configure event; a configure is sent only by a call
\* send_decoration_configure(id, mode), which changes nothing else and sends
\* exactly one configure, with that mode (ServerSide or ClientSide), on that
\* resource.
C13_ConfigureOnlyOnCall ==
    [][/\ IsRequestStep => configures' = configures
       /\ configures' # configures =>
            /\ UNCHANGED <<decoration, objs, posted_errors, events, requests, decoration_mode>>
            /\ Len(configures') = Len(configures) + 1
            /\ SubSeq(configures', 1, Len(configures)) = configures
            /\ LET c == configures'[Len(configures')]
               IN  /\ c.id \in Ids
                   /\ c.mode \in Mode
                   /\ c.sent = <<[obj |-> c.id, mode |-> c.mode]>>]_vars

\* ClientSide was sent on a resource, between handled requests
C13_Witness ==
    /\ configures # <<>>
    /\ configures[1].mode = "ClientSide"
    /\ configures[1].sent = <<[obj |-> configures[1].id, mode |-> "ClientSide"]>>
    /\ Len(requests) >= 2
    /\ \E d \in Ids : objs[d].runs >= 1

\* ---- C14 ----
\* a set_mode or unset_mode handled after a manager destroy, on a resource
\* with a handler that was created before that destroy, was relayed
RelayedAfterManagerDestroy ==
    \A i \in 1..Len(requests) : \A j \in (i + 1)..Len(requests) :
        (/\ requests[i].kind = "ManagerDestroy"
         /\ requests[j].kind \in {"SetMode", "UnsetMode"}
         /\ HasData(requests[CreatedBy(requests[j].obj)].toplevel)
         /\ CreatedBy(requests[j].obj) < i)
            => \E k \in 1..Len(events) :
                  /\ events[k].req = j
                  /\ Payload(events[k]) = Relayed(requests[j])

ManagerDestroyChangesNothing ==
    (IsRequestStep /\ Handled.kind = "ManagerDestroy") =>
        UNCHANGED <<decoration, objs, posted_errors, events, configures, decoration_mode>>

\* C14 (the manager's Destroy is a no-op): handling it delivers no event,
\* posts no error and leaves every slot and every decoration object
\* unchanged, and the decoration objects created before it keep relaying
\* set_mode and unset_mode afterwards.
C14_ManagerDestroyNoOp == []RelayedAfterManagerDestroy /\ [][ManagerDestroyChangesNothing]_vars

\* get, manager destroy, then a mode request relayed on the same handle,
\* which is still bound
C14_Witness ==
    \E i \in 1..Len(requests) : \E j \in (i + 1)..Len(requests) :
        /\ requests[i].kind = "ManagerDestroy"
        /\ requests[j].kind \in {"SetMode", "UnsetMode"}
        /\ CreatedBy(requests[j].obj) < i
        /\ decoration[objs[requests[j].obj].toplevel] = requests[j].obj
        /\ \E k \in 1..Len(events) : events[k].req = j

\* ---- C15 ----
\* C15 (no dangling back-reference): a non-empty slot of a toplevel W refers
\* to a resource that a get_toplevel_decoration targeting W created and
\* whose destructor has not run.
C15_NoDanglingSlot ==
    \A w \in Toplevels :
        decoration[w] # None =>
            /\ decoration[w] \in Ids
            /\ requests[CreatedBy(decoration[w])].toplevel = w
            /\ objs[decoration[w]].runs = 0

\* W1's slot refers to a live decoration created after an earlier decoration
\* of W1 was destroyed, while W2 is bound too
C15_Witness ==
    /\ decoration["W1"] # None
    /\ decoration["W2"] # None
    /\ \E d \in Ids :
          /\ d < decoration["W1"]
          /\ objs[d].toplevel = "W1"
          /\ objs[d].runs >= 1

\* ---- C16 ----
\* the toplevel the handled request is about: the target of a
\* get_toplevel_decoration, or the toplevel the resource was created for
HandledToplevel ==
    IF Handled.kind = "GetToplevelDecoration"
    THEN Handled.toplevel
    ELSE requests[CreatedBy(Handled.obj)].toplevel

\* C16 (per-window isolation): handling get_toplevel_decoration targeting W,
\* set_mode or unset_mode on a decoration of W, or running the destructor of
\* a decoration of W leaves the slot of every other toplevel unchanged, posts
\* an error only on a decoration of W and delivers only events naming W.
C16_PerWindowIsolation ==
    [][(IsRequestStep /\ Handled.kind # "ManagerDestroy") =>
        LET w == HandledToplevel
        IN  /\ \A v \in Toplevels \ {w} : decoration'[v] = decoration[v]
            /\ \A d \in posted_errors' \ posted_errors : objs'[d].toplevel = w
            /\ \A k \in (Len(events) + 1)..Len(events') : events'[k].toplevel = w
            /\ SubSeq(events', 1, Len(events)) = events]_vars

\* W2 stays bound while a rejected handle of W1 is destroyed
C16_Witness ==
    /\ requests # <<>>
    /\ LastRequest.kind = "Destroy"
    /\ objs[LastRequest.obj].toplevel = "W1"
    /\ LastRequest.obj \in posted_errors
    /\ decoration["W1"] = None
    /\ decoration["W2"] # None

\* ---- C17 ----
\* the resources created for a toplevel without a ShellSurfaceUserData record
WithoutRecord == {d \in Ids : requests[CreatedBy(d)].toplevel \notin WithUserData}

InertWithoutRecord ==
    \A d \in WithoutRecord :
        /\ d \notin posted_errors
        /\ ~objs[d].assigned
        /\ \A w \in Toplevels : decoration[w] # d
        /\ decoration[objs[d].toplevel] = None
        /\ \A k \in 1..Len(events) :
              events[k].obj # d /\ requests[events[k].req].obj # d

DestructorWithoutRecord ==
    \A d \in WithoutRecord : IsDestructorStep(d) => decoration' = decoration

\* C17 (toplevel without shell-surface data): a get_toplevel_decoration
\* targeting a toplevel without the record delivers no event, posts no error,
\* records no association and installs no handler, so set_mode and unset_mode
\* on the new handle deliver nothing, and its destructor changes no slot.
C17_NoRecordInert == []InertWithoutRecord /\ [][DestructorWithoutRecord]_vars

\* a handle created for X received a mode request and was destroyed while W1
\* is bound
C17_Witness ==
    \E d \in WithoutRecord :
        /\ \E j \in 1..Len(requests) :
              requests[j].kind \in {"SetMode", "UnsetMode"} /\ requests[j].obj = d
        /\ objs[d].runs = 1
        /\ decoration["W1"] # None

====
